---------------------------- MODULE Spec2Model ----------------------------
(***************************************************************************)
(* A model of gpg-import: the colon-listing parser of src/src/gpg.rs, the  *)
(* lifecycle (expiration) validation of extract_key_info, and the import   *)
(* pipeline of src/src/import.rs.                                          *)
(*                                                                         *)
(* Text is modelled as a sequence of one-character strings, so that the    *)
(* nom combinators (tag, take_until, count, pair) search and consume the   *)
(* input character by character as the code does, and so that rendering a  *)
(* number (format!("{}")) and parsing it (str::parse::<i64>) are two        *)
(* different computations.                                                 *)
(*                                                                         *)
(* Three specifications share the module:                                  *)
(*   Spec       one run of GpgImport::import over every bounded choice of  *)
(*              options, key material and environment;                     *)
(*   ParseSpec  the listing parser applied to rendered listings;           *)
(*   CallSpec   one direct call of a public function of gpg.rs or git.rs.  *)
(***************************************************************************)
EXTENDS Integers, Sequences, FiniteSets

VARIABLES
    cfg,      \* the GpgImport builder's fields (import.rs:6-14)
    env,      \* what the surrounding system answers: key store, repository, failures
    run,      \* one run of GpgImport::import: position, key record, result, effects
    input,    \* parser harness: the known key record a listing is rendered from
    text,     \* parser harness: the rendered listing
    parsed,   \* parser harness: the result of parsing text
    returned  \* a direct call of a library function: what it returned

vars == <<cfg, env, run, input, text, parsed, returned>>

---------------------------------------------------------------------------
(* Bounds and fixed instants                                               *)

\* Expiration instants are drawn from Now - MaxDelta .. Now + MaxDelta.
MaxDelta == 1

\* The instant Utc::now().timestamp() returns during the run.
Now == 100

---------------------------------------------------------------------------
(* Option<T>                                                               *)

None == <<>>
Some(x) == <<x>>
IsSome(o) == Len(o) = 1
Unwrap(o) == o[1]

---------------------------------------------------------------------------
(* Text                                                                    *)

StartsWith(i, t) == Len(i) >= Len(t) /\ SubSeq(i, 1, Len(t)) = t
Drop(i, n) == SubSeq(i, n + 1, Len(i))
Take(i, n) == SubSeq(i, 1, n)

\* The offset of the first occurrence of t in i at or after offset k, or -1.
OccursAt(t, i, j) == SubSeq(i, j + 1, j + Len(t)) = t
FindFrom(t, i, k) ==
    IF \E j \in k..(Len(i) - Len(t)) : OccursAt(t, i, j)
    THEN CHOOSE j \in k..(Len(i) - Len(t)) :
            OccursAt(t, i, j) /\ \A h \in k..(j - 1) : ~OccursAt(t, i, h)
    ELSE -1

DigitChars == <<"0", "1", "2", "3", "4", "5", "6", "7", "8", "9">>
IsDigit(c) == \E d \in 1..10 : DigitChars[d] = c
DigitVal(c) == (CHOOSE d \in 1..10 : DigitChars[d] = c) - 1

RECURSIVE digits_value(_, _)
digits_value(s, acc) ==
    IF s = <<>> THEN acc ELSE digits_value(Tail(s), 10 * acc + DigitVal(Head(s)))

\* str::parse::<i64>: an optional sign, then one or more ASCII digits; anything
\* else is an Err (None here).  The instants of the model are far below 2^63,
\* so the overflow branch of the conversion is never taken.
parse_i64(s) ==
    LET signed == s # <<>> /\ Head(s) \in {"+", "-"}
        ds == IF signed THEN Tail(s) ELSE s
    IN  IF ds = <<>> \/ \E k \in 1..Len(ds) : ~IsDigit(ds[k]) THEN None
        ELSE IF Head(s) = "-" THEN Some(0 - digits_value(ds, 0))
        ELSE Some(digits_value(ds, 0))

RECURSIVE nat_digits(_)
nat_digits(n) ==
    IF n < 10 THEN <<DigitChars[n + 1]>>
    ELSE nat_digits(n \div 10) \o <<DigitChars[(n % 10) + 1]>>

\* format!("{}", n) for an i64.
to_string(n) == IF n < 0 THEN <<"-">> \o nat_digits(0 - n) ELSE nat_digits(n)

---------------------------------------------------------------------------
(* Sequencing: `let x = e;` and the `?` operator                           *)

\* let x = v; K(x)
With(v, K(_)) == K(v)

\* let (i, x) = p(input)?; K(..): the nom error of p is returned as it is.
Then(r, K(_)) == IF ~r.ok THEN r ELSE K(r)

---------------------------------------------------------------------------
(* nom combinators (complete input, nom::error::Error)                     *)

NomOk(rest, out) == [ok |-> TRUE, rest |-> rest, out |-> out]
NomErr(i, code) == [ok |-> FALSE, input |-> i, code |-> code]

COLON == <<":">>

tag(t, i) ==
    IF StartsWith(i, t) THEN NomOk(Drop(i, Len(t)), t) ELSE NomErr(i, "Tag")

take_until(t, i) ==
    With(FindFrom(t, i, 0), LAMBDA k :
        IF k < 0 THEN NomErr(i, "TakeUntil") ELSE NomOk(Drop(i, k), Take(i, k)))

\* pair(take_until(":"), tag(":"))
pair_field(i) ==
    Then(take_until(COLON, i), LAMBDA a :
    Then(tag(COLON, a.rest), LAMBDA b :
        NomOk(b.rest, <<a.out, b.out>>)))

\* count(pair(take_until(":"), tag(":")), n)
RECURSIVE count_fields(_, _)
count_fields(n, i) ==
    IF n = 0 THEN NomOk(i, <<>>)
    ELSE Then(pair_field(i), LAMBDA h :
         Then(count_fields(n - 1, h.rest), LAMBDA t :
             NomOk(t.rest, <<h.out>> \o t.out)))

\* count(tag(":"), n)
RECURSIVE count_tag(_, _)
count_tag(n, i) ==
    IF n = 0 THEN NomOk(i, <<>>)
    ELSE Then(tag(COLON, i), LAMBDA h :
         Then(count_tag(n - 1, h.rest), LAMBDA t :
             NomOk(t.rest, <<h.out>> \o t.out)))

\* A header that skips one field too few.
record_header_three(t, i) ==
    Then(tag(t, i), LAMBDA a : count_fields(3, a.rest))

\* (tag(t), count(pair(take_until(":"), tag(":")), 4)): the record tag and the
\* four fields before the key id.
record_header(t, i) ==
    Then(tag(t, i), LAMBDA a : count_fields(4, a.rest))

\* (take_until(t), tag(t), count(tag(":"), 9)) and then take_until(":"): the
\* tenth field of the next fpr or grp record.
tenth_field(t, i) ==
    Then(take_until(t, i), LAMBDA a :
    Then(tag(t, a.rest), LAMBDA b :
    Then(count_tag(9, b.rest), LAMBDA c :
        take_until(COLON, c.rest))))

\* (take_until("uid"), tag("uid"), count(pair(take_until(":"), tag(":")), 9)) and
\* then separated_pair(take_until(" <"), tag(" <"), take_until(">")).
uid_field(i) ==
    Then(take_until(<<"u","i","d">>, i), LAMBDA a :
    Then(tag(<<"u","i","d">>, a.rest), LAMBDA b :
    Then(count_fields(9, b.rest), LAMBDA c :
    Then(take_until(<<" ","<">>, c.rest), LAMBDA n :
    Then(tag(<<" ","<">>, n.rest), LAMBDA s :
    Then(take_until(<<">">>, s.rest), LAMBDA e :
        NomOk(e.rest, <<n.out, e.out>>)))))))

---------------------------------------------------------------------------
(* parse_gpg_key_details and FromStr for GpgPrivateKey                     *)

\* An empty expiration field read as the instant 0 (unwrap_or_default).
expiration_of_defaulting(field) ==
    IF field = <<>> THEN Some(Some(0))
    ELSE With(parse_i64(field), LAMBDA v : IF IsSome(v) THEN Some(v) ELSE None)

\* The expiration_date of a segment: None for an empty field, otherwise the
\* field parsed as an i64 and unwrapped (Some(None): the key does not expire;
\* None: the unwrap panics).
expiration_of(field) ==
    IF field = <<>> THEN Some(None)
    ELSE With(parse_i64(field), LAMBDA v : IF IsSome(v) THEN Some(v) ELSE None)

\* A GpgKeyDetails from the three fields read after the header (key id,
\* creation date, expiration date), the fingerprint and the keygrip; None when
\* an unwrap() of a failed integer parse panics.
GpgKeyDetails(three, fpr, grp) ==
    With(parse_i64(three[2][1]), LAMBDA c :
    With(expiration_of(three[3][1]), LAMBDA e :
        IF ~IsSome(c) \/ ~IsSome(e) THEN None
        ELSE Some([creation_date |-> Unwrap(c),
                   expiration_date |-> Unwrap(e),
                   fingerprint |-> fpr,
                   key_id |-> three[1][1],
                   keygrip |-> grp])))

\* The subkey built with the fingerprint and keygrip read for the primary key.
GpgPrivateKey_conflated(uid, sec, sec_fpr, sec_grp, ssb, ssb_fpr, ssb_grp) ==
    With(GpgKeyDetails(sec, sec_fpr, sec_grp), LAMBDA secret_key :
    With(GpgKeyDetails(ssb, sec_fpr, sec_grp), LAMBDA secret_subkey :
        IF ~IsSome(secret_key) \/ ~IsSome(secret_subkey) THEN [kind |-> "Panic"]
        ELSE [kind |-> "Ok",
              key |-> [user_name |-> uid[1],
                       user_email |-> uid[2],
                       secret_key |-> Unwrap(secret_key),
                       secret_subkey |-> Unwrap(secret_subkey)]]))

\* The record built at the end of parse_gpg_key_details.
GpgPrivateKey(uid, sec, sec_fpr, sec_grp, ssb, ssb_fpr, ssb_grp) ==
    With(GpgKeyDetails(sec, sec_fpr, sec_grp), LAMBDA secret_key :
    With(GpgKeyDetails(ssb, ssb_fpr, ssb_grp), LAMBDA secret_subkey :
        IF ~IsSome(secret_key) \/ ~IsSome(secret_subkey) THEN [kind |-> "Panic"]
        ELSE [kind |-> "Ok",
              key |-> [user_name |-> uid[1],
                       user_email |-> uid[2],
                       secret_key |-> Unwrap(secret_key),
                       secret_subkey |-> Unwrap(secret_subkey)]]))

\* parse_gpg_key_details: the nom steps in the order of the code, then the
\* record.  The result is a NomOk whose out is [kind |-> "Ok", key] or
\* [kind |-> "Panic"], or the NomErr of the step that failed.
parse_gpg_key_details(input_text) ==
    Then(record_header(<<"s","e","c">>, input_text), LAMBDA hdr :
    Then(count_fields(3, hdr.rest), LAMBDA sec :
    Then(tenth_field(<<"f","p","r">>, sec.rest), LAMBDA sec_fpr :
    Then(tenth_field(<<"g","r","p">>, sec_fpr.rest), LAMBDA sec_grp :
    Then(uid_field(sec_grp.rest), LAMBDA uid :
    Then(take_until(<<"s","s","b">>, uid.rest), LAMBDA skipped :
    Then(record_header(<<"s","s","b">>, skipped.rest), LAMBDA sub_hdr :
    Then(count_fields(3, sub_hdr.rest), LAMBDA ssb :
    Then(tenth_field(<<"f","p","r">>, ssb.rest), LAMBDA ssb_fpr :
    Then(tenth_field(<<"g","r","p">>, ssb_fpr.rest), LAMBDA ssb_grp :
        NomOk(ssb_grp.rest,
              GpgPrivateKey(uid.out, sec.out, sec_fpr.out, sec_grp.out,
                            ssb.out, ssb_fpr.out, ssb_grp.out))))))))))))

\* The error built from the whole text instead of the parser's remainder.
from_str_whole_input(s) ==
    With(parse_gpg_key_details(s), LAMBDA r :
        IF r.ok THEN r.out ELSE [kind |-> "Err", input |-> s, code |-> r.code])

\* impl FromStr for GpgPrivateKey: [kind |-> "Ok", key], [kind |-> "Err", input,
\* code] with the unconsumed input of the failing step, or [kind |-> "Panic"].
from_str(s) ==
    With(parse_gpg_key_details(s), LAMBDA r :
        IF r.ok THEN r.out ELSE [kind |-> "Err", input |-> r.input, code |-> r.code])

---------------------------------------------------------------------------
(* Listings: the fixture generator of the unit tests, and the layout of    *)
(* `gpg --with-colons --with-keygrip --list-secret-keys --fixed-list-mode` *)

\* An expiration field: the number, or nothing when the key does not expire.
expiration_field(o) == IF IsSome(o) THEN to_string(Unwrap(o)) ELSE <<>>

\* tests::generate_gpg_colon_format: the four instants are i64 and are always
\* rendered; everything else is literal text.
generate_gpg_colon_format(secret_key_creation, secret_key_expiration, secret_subkey_creation, secret_subkey_expiration) ==
    <<"s","e","c",":","u",":","4","0","9","6",":","1",":","F","D","E","F","E","8","A","B",
        "8","7","9","6","E","1","2","7",":">>
    \o to_string(secret_key_creation) \o <<":">>
    \o to_string(secret_key_expiration)
    \o <<":",":","u",":",":",":","s","c","E","S","C",":",":",":","+",":",":",":","2","3",":",
        ":","0",":","\n","f","p","r",":",":",":",":",":",":",":",":",":","B","E","E","A",
        "4","C","D","B","4","B","0","A","8","0","C","B","A","B","B","9","9","B","4","5","F",
        "D","E","F","E","8","A","B","8","7","9","6","E","1","2","7",":","\n">>
    \o <<"g","r","p",":",":",":",":",":",":",":",":",":","C","4","4","0","3","D","A","4","A",
        "F","9","1","1","0","8","4","4","8","0","B","A","4","6","7","4","3","E","7","0","7",
        "C","C","D","D","0","8","2","A","2","4",":","\n","u","i","d",":","u",":",":",":",
        ":">>
    \o to_string(secret_key_creation)
    \o <<":",":","0","E","9","C","7","5","9","8","7","9","7","E","7","F","7","A","3","8","0",
        "A","7","2","A","5","8","B","9","B","7","F","A","2","8","1","6","0","A","B","0","6",
        ":",":","b","a","t","m","a","n"," ","<","b","a","t","m","a","n","@","d","c",".","c",
        "o","m",">",":",":",":",":",":",":",":",":",":",":","0",":","\n">>
    \o <<"s","s","b",":","u",":","4","0","9","6",":","1",":","B","E","6","6","6","3","F","6",
        "A","3","2","3","F","B","E","8",":">>
    \o to_string(secret_subkey_creation) \o <<":">>
    \o to_string(secret_subkey_expiration)
    \o <<":",":",":",":",":","e",":",":",":","+",":",":",":","2","3",":","\n","f","p","r",
        ":",":",":",":",":",":",":",":",":","F","3","6","B","E","0","3","2","1","1","A","F",
        "1","D","3","C","E","2","6","D","8","B","3","A","B","E","6","6","6","3","F","6","A",
        "3","2","3","F","B","E","8",":","\n">>
    \o <<"g","r","p",":",":",":",":",":",":",":",":",":","4","A","C","8","E","7","E","7","F",
        "D","8","B","4","0","5","D","F","2","7","6","1","7","2","6","D","2","9","6","F","9",
        "8","C","9","B","7","7","8","8","7","5",":">>

\* The key record the fixture stands for: the values tests::extract_key_info
\* expects back, the expirations as Option<i64>.
FixtureRecord(sc, se, bc, be) ==
    [user_name |-> <<"b","a","t","m","a","n">>,
     user_email |-> <<"b","a","t","m","a","n","@","d","c",".","c","o","m">>,
     secret_key |-> [creation_date |-> sc,
                     expiration_date |-> se,
                     fingerprint |-> <<"B","E","E","A","4","C","D","B","4","B","0","A","8","0","C","B","A","B","B","9","9",
        "B","4","5","F","D","E","F","E","8","A","B","8","7","9","6","E","1","2","7">>,
                     key_id |-> <<"F","D","E","F","E","8","A","B","8","7","9","6","E","1","2","7">>,
                     keygrip |-> <<"C","4","4","0","3","D","A","4","A","F","9","1","1","0","8","4","4","8","0","B","A",
        "4","6","7","4","3","E","7","0","7","C","C","D","D","0","8","2","A","2","4">>],
     secret_subkey |-> [creation_date |-> bc,
                        expiration_date |-> be,
                        fingerprint |-> <<"F","3","6","B","E","0","3","2","1","1","A","F","1","D","3","C","E","2","6","D","8",
        "B","3","A","B","E","6","6","6","3","F","6","A","3","2","3","F","B","E","8">>,
                        key_id |-> <<"B","E","6","6","6","3","F","6","A","3","2","3","F","B","E","8">>,
                        keygrip |-> <<"4","A","C","8","E","7","E","7","F","D","8","B","4","0","5","D","F","2","7","6","1",
        "7","2","6","D","2","9","6","F","9","8","C","9","B","7","7","8","8","7","5">>]]

\* One sec or ssb record followed by its fpr and grp records, as the key tool
\* prints them: the key id is field 5, the creation date field 6, the
\* expiration date field 7 (empty when the key does not expire).
segment_records(tagname, trailer, d) ==
    tagname \o <<":","u",":","4","0","9","6",":","1",":">> \o d.key_id \o <<":">>
    \o to_string(d.creation_date) \o <<":">>
    \o expiration_field(d.expiration_date) \o trailer

fpr_grp_records(d) ==
    <<"f","p","r",":",":",":",":",":",":",":",":",":">> \o d.fingerprint \o <<":","\n">>
    \o <<"g","r","p",":",":",":",":",":",":",":",":",":">> \o d.keygrip \o <<":","\n">>

\* The listing the key tool prints for one secret key with one subkey.
WellFormedListing(k) ==
    segment_records(<<"s","e","c">>, <<":",":","u",":",":",":","s","c","E","S","C",":",":",":","+",":",":",":","2","3",":",
        ":","0",":","\n">>, k.secret_key)
    \o fpr_grp_records(k.secret_key)
    \o <<"u","i","d",":","u",":",":",":",":">> \o to_string(k.secret_key.creation_date)
    \o <<":",":","0","E","9","C","7","5","9","8",":",":">> \o k.user_name \o <<" ","<">> \o k.user_email
    \o <<">",":",":",":",":",":",":",":",":",":",":","0",":","\n">>
    \o segment_records(<<"s","s","b">>, <<":",":",":",":",":","e",":",":",":","+",":",":",":","2","3",":","\n">>, k.secret_subkey)
    \o fpr_grp_records(k.secret_subkey)

\* The expiration instants of the model: none, or around Now.
Expirations == {None} \cup {Some(e) : e \in (Now - MaxDelta)..(Now + MaxDelta)}

\* Two sets of identifiers; a key takes one for its primary segment and the
\* other for its subkey.
Identifiers ==
    <<[key_id |-> <<"A","1","B","2","C","3","D","4">>, fingerprint |-> <<"0","F","0","F","A","1","B","2","C","3","D","4">>,
       keygrip |-> <<"C","0","D","E","0","0","0","1">>],
      [key_id |-> <<"E","5","F","6","0","7","1","8">>, fingerprint |-> <<"1","E","1","E","E","5","F","6","0","7","1","8">>,
       keygrip |-> <<"C","0","D","E","0","0","0","2">>]>>

Segment(ids, c, e) ==
    [creation_date |-> c, expiration_date |-> e, fingerprint |-> ids.fingerprint,
     key_id |-> ids.key_id, keygrip |-> ids.keygrip]

StoredKey(v, name, sc, se, be) ==
    [user_name |-> name,
     user_email |-> <<"b","a","t","m","a","n","@","d","c",".","c","o","m">>,
     secret_key |-> Segment(Identifiers[v], sc, se),
     secret_subkey |-> Segment(Identifiers[3 - v], 42, be)]

UserNames == {<<"b","a","t","m","a","n">>, <<"b","r","u","c","e"," ","w","a","y","n","e">>}

ListingRecords ==
    {StoredKey(v, n, sc, se, be) :
        v \in {1, 2}, n \in UserNames, sc \in {7, Now}, se \in Expirations,
        be \in Expirations}

FixtureRecords ==
    {FixtureRecord(sc, se, Now, be) :
        sc \in {0 - 5, Now}, se \in Expirations, be \in Expirations}

---------------------------------------------------------------------------
(* ParseSpec: a known key record is rendered as a listing and parsed back  *)

Idle == [kind |-> "idle"]
Pending == [kind |-> "Pending"]

ParseInit ==
    /\ input \in [kind : {"fixture"}, key : FixtureRecords]
                 \cup [kind : {"listing"}, key : ListingRecords]
    /\ text = <<>>
    /\ parsed = Pending
    /\ cfg = Idle /\ env = Idle /\ run = Idle /\ returned = Idle

\* The fixture generator takes both expirations as plain integers: a record
\* without an expiration has no rendering by it.
Renderable(key) ==
    /\ IsSome(key.secret_key.expiration_date)
    /\ IsSome(key.secret_subkey.expiration_date)

RenderFixture ==
    /\ input.kind = "fixture" /\ text = <<>>
    /\ Renderable(input.key)
    /\ text' = generate_gpg_colon_format(
                   input.key.secret_key.creation_date,
                   Unwrap(input.key.secret_key.expiration_date),
                   input.key.secret_subkey.creation_date,
                   Unwrap(input.key.secret_subkey.expiration_date))
    /\ UNCHANGED <<cfg, env, run, input, parsed, returned>>

RenderListing ==
    /\ input.kind = "listing" /\ text = <<>>
    /\ text' = WellFormedListing(input.key)
    /\ UNCHANGED <<cfg, env, run, input, parsed, returned>>

ParseListing ==
    /\ text # <<>> /\ parsed = Pending
    /\ parsed' = from_str(text)
    /\ UNCHANGED <<cfg, env, run, input, text, returned>>

ParseNext == RenderFixture \/ RenderListing \/ ParseListing

ParseSpec == ParseInit /\ [][ParseNext]_vars

---------------------------------------------------------------------------
(* Results of the gpg and git module functions                             *)

\* An error value: its kind, and the number and the text it carries.
Error(kind, num, txt) == [kind |-> kind, num |-> num, text |-> txt]
NoError == Error("none", 0, <<>>)
IoError(op) == Error("Io", 0, op)

\* A mutating call made on the surrounding system: the function called, what it
\* was called on, the trust level passed (0 when there is none), the
\* key/value pairs written to a configuration store, and whether it succeeded.
Effect(op, target, level, writes, ok) ==
    [op |-> op, target |-> target, level |-> level, writes |-> writes, ok |-> ok]

\* Result<T>: st is "Ok", "Err" or "Panic"; calls are the mutating calls made.
Ok(val, calls) == [st |-> "Ok", val |-> val, err |-> NoError, calls |-> calls]
Err(err, calls) == [st |-> "Err", val |-> <<>>, err |-> err, calls |-> calls]
Panic(calls) == [st |-> "Panic", val |-> <<>>, err |-> NoError, calls |-> calls]

\* let x = f()?; K(x) inside a function of the gpg module: an Err (or a panic)
\* returns at once; the calls made so far stay made.
AndThen(res, K(_)) ==
    IF res.st # "Ok" THEN res
    ELSE With(K(res.val), LAMBDA nxt : [nxt EXCEPT !.calls = res.calls \o nxt.calls])

---------------------------------------------------------------------------
(* gpg.rs: decoding, import, extraction and lifecycle validation           *)

Base64Alphabet ==
    {"A", "B", "C", "D", "E", "F", "G", "H", "I", "J", "K", "L", "M", "N", "O", "P",
     "Q", "R", "S", "T", "U", "V", "W", "X", "Y", "Z", "a", "b", "c", "d", "e", "f",
     "g", "h", "i", "j", "k", "l", "m", "n", "o", "p", "q", "r", "s", "t", "u", "v",
     "w", "x", "y", "z", "0", "1", "2", "3", "4", "5", "6", "7", "8", "9", "+", "/"}

\* The key text without its trailing padding.
unpadded(key) ==
    IF Len(key) >= 2 /\ SubSeq(key, Len(key) - 1, Len(key)) = <<"=","=">>
    THEN Take(key, Len(key) - 2)
    ELSE IF Len(key) >= 1 /\ key[Len(key)] = "=" THEN Take(key, Len(key) - 1)
    ELSE key

\* The offset of the last symbol outside the alphabet, or -1.
RECURSIVE last_invalid(_, _)
last_invalid(body, k) ==
    IF k >= Len(body) THEN -1
    ELSE With(last_invalid(body, k + 1), LAMBDA later :
             IF later >= 0 THEN later
             ELSE IF body[k + 1] \notin Base64Alphabet THEN k
             ELSE -1)

\* The offset of the first symbol outside the alphabet at or after offset k,
\* or -1.
RECURSIVE first_invalid(_, _)
first_invalid(body, k) ==
    IF k >= Len(body) THEN -1
    ELSE IF body[k + 1] \notin Base64Alphabet THEN k
    ELSE first_invalid(body, k + 1)

\* The alphabet in the order of its values.
Base64Symbols ==
    <<"A","B","C","D","E","F","G","H","I","J","K","L","M","N","O","P","Q","R","S","T","U",
        "V","W","X","Y","Z","a","b","c","d","e","f","g","h","i","j","k","l","m","n","o","p",
        "q","r","s","t","u","v","w","x","y","z","0","1","2","3","4","5","6","7","8","9","+",
        "/">>

\* The six bits a symbol of the alphabet stands for.
sextet(c) == FindFrom(<<c>>, Base64Symbols, 0)

\* Whether the last symbol before the padding leaves the bits that are
\* discarded at zero (otherwise DecodeError::InvalidLastSymbol).
last_symbol_canonical(key, body) ==
    CASE Len(key) - Len(body) = 2 -> sextet(body[Len(body)]) % 16 = 0
      [] Len(key) - Len(body) = 1 -> sextet(body[Len(body)]) % 4 = 0
      [] OTHER -> TRUE

\* general_purpose::STANDARD.decode as import_secret_key uses it: the first
\* symbol outside the alphabet is DecodeError::InvalidByte(offset, byte), any
\* other defect of the encoding (length, padding, last symbol) is another
\* DecodeError, which import_secret_key returns as it is.  The decoded bytes
\* are named by the text that encodes them.
decode(key) ==
    With(first_invalid(unpadded(key), 0), LAMBDA offset :
        IF offset >= 0
        THEN Err(Error("InvalidByteInGpgKey", offset, <<key[offset + 1]>>), <<>>)
        ELSE IF Len(key) % 4 # 0 THEN Err(Error("DecodeError", 0, <<>>), <<>>)
        ELSE IF ~last_symbol_canonical(key, unpadded(key))
        THEN Err(Error("DecodeError", 0, <<>>), <<>>)
        ELSE Ok(key, <<>>))

\* What `gpg --import --batch --yes` writes to stderr for the decoded bytes: the
\* key material of the environment is an OpenPGP key (env.key) or it is not.
GpgImportStderr(e, decoded) ==
    IF decoded # <<>> /\ IsSome(e.key)
    THEN <<"g","p","g",":"," ","k","e","y"," ">> \o Unwrap(e.key).secret_key.key_id
         \o <<":"," ","p","u","b","l","i","c"," ","k","e","y"," ","\"","b","a","t","m","a","n",
        "\""," ","i","m","p","o","r","t","e","d","\n","g","p","g",":"," ","k","e","y"," ">>
         \o Unwrap(e.key).secret_key.key_id \o <<":"," ","s","e","c","r","e","t"," ","k","e","y"," ","i","m","p","o","r","t","e","d",
        "\n">>
    ELSE <<"g","p","g",":"," ","n","o"," ","v","a","l","i","d"," ","O","p","e","n","P","G","P",
        " ","d","a","t","a"," ","f","o","u","n","d",".","\n">>

\* parse_gpg_import: the text between "gpg: key " and the next colon.
parse_gpg_import(i) ==
    Then(take_until(<<"g","p","g",":"," ","k","e","y"," ">>, i), LAMBDA a :
    Then(tag(<<"g","p","g",":"," ","k","e","y">>, a.rest), LAMBDA b :
    Then(tag(<<" ">>, b.rest), LAMBDA c :
        take_until(COLON, c.rest))))

\* import_secret_key: decode, hand the bytes to the key tool, read the imported
\* key's identifier off its diagnostic stream (an unwrap: a stream without the
\* anchor phrase panics).
import_secret_key(key, e) ==
    AndThen(decode(key), LAMBDA decoded :
    With(parse_gpg_import(GpgImportStderr(e, decoded)), LAMBDA id :
        IF ~id.ok THEN Panic(<<Effect("import_secret_key", decoded, 0, <<>>, FALSE)>>)
        ELSE Ok(id.out, <<Effect("import_secret_key", decoded, 0, <<>>, TRUE)>>)))

\* What the listing query prints for key_id: the stored key's records, or
\* nothing when the key store holds no such key.
GpgListSecretKeys(store, key_id) ==
    IF IsSome(store) /\ Unwrap(store).secret_key.key_id = key_id
    THEN WellFormedListing(Unwrap(store))
    ELSE <<>>

\* A key still valid at the very instant it expires.
HasExpiredStrictly(expiration_date, current_timestamp) ==
    expiration_date < current_timestamp

\* if expiration_date <= current_timestamp { bail!(...) }
HasExpired(expiration_date, current_timestamp) ==
    expiration_date <= current_timestamp

\* One lifecycle check of extract_key_info: `if let Some(expiration_date) = ...`.
ExpiredError(kind, expiration_date, current_timestamp) ==
    IF IsSome(expiration_date) /\ HasExpired(Unwrap(expiration_date), current_timestamp)
    THEN Some(Error(kind, Unwrap(expiration_date), <<>>))
    ELSE None

\* The two lifecycle checks in the other order.
ValidateExpirationSubkeyFirst(key_details, current_timestamp) ==
    With(ExpiredError("SecretKeyExpired", key_details.secret_key.expiration_date,
                      current_timestamp), LAMBDA primary :
    With(ExpiredError("SecretSubkeyExpired", key_details.secret_subkey.expiration_date,
                      current_timestamp), LAMBDA subkey :
        IF IsSome(subkey) THEN Err(Unwrap(subkey), <<>>)
        ELSE IF IsSome(primary) THEN Err(Unwrap(primary), <<>>)
        ELSE Ok(key_details, <<>>)))

\* The lifecycle checks of extract_key_info: the primary key first ("GPG secret
\* key has expired on ..."), then the subkey ("GPG secret subkey has expired
\* on ..."); the error carries the expiration instant.
ValidateExpiration(key_details, current_timestamp) ==
    With(ExpiredError("SecretKeyExpired", key_details.secret_key.expiration_date,
                      current_timestamp), LAMBDA primary :
    With(ExpiredError("SecretSubkeyExpired", key_details.secret_subkey.expiration_date,
                      current_timestamp), LAMBDA subkey :
        IF IsSome(primary) THEN Err(Unwrap(primary), <<>>)
        ELSE IF IsSome(subkey) THEN Err(Unwrap(subkey), <<>>)
        ELSE Ok(key_details, <<>>)))

\* output.parse::<GpgPrivateKey>()? and the checks that follow it.
ParseAndValidate(listing, current_timestamp) ==
    With(from_str(listing), LAMBDA p :
        IF p.kind = "Panic" THEN Panic(<<>>)
        ELSE IF p.kind = "Err" THEN Err(Error("ParseError", 0, p.input), <<>>)
        ELSE ValidateExpiration(p.key, current_timestamp))

\* The listing parsed and returned without the lifecycle checks.
extract_key_info_unchecked(key_id, store) ==
    With(from_str(GpgListSecretKeys(store, key_id)), LAMBDA p :
        IF p.kind = "Panic" THEN Panic(<<>>)
        ELSE IF p.kind = "Err" THEN Err(Error("ParseError", 0, p.input), <<>>)
        ELSE Ok(p.key, <<>>))

\* extract_key_info: list the key, parse the listing, validate the lifecycle.
extract_key_info(key_id, store) ==
    ParseAndValidate(GpgListSecretKeys(store, key_id), Now)

\* preview_key is called by import.rs and exercised by tests/gpg.rs but is not
\* part of the sources at hand.  From the specification: it decodes the key
\* material, performs the same parse and the same lifecycle validation as the
\* import path, and registers nothing in the key store.
preview_key(key, e) ==
    AndThen(decode(key), LAMBDA decoded :
        IF decoded = <<>> THEN Err(Error("EmptyKeyInput", 0, <<>>), <<>>)
        ELSE IF ~IsSome(e.key) THEN Err(Error("InvalidGpgKeyData", 0, <<>>), <<>>)
        ELSE ParseAndValidate(WellFormedListing(Unwrap(e.key)), Now))

\* A call that mutates the surrounding system and whose only outcomes are
\* success and an I/O failure (spawn, pipe, file or configuration store).
Mutate(fails, op, target, level, writes) ==
    IF fails
    THEN Err(IoError(op), <<Effect(op, target, level, <<>>, FALSE)>>)
    ELSE Ok(<<>>, <<Effect(op, target, level, writes, TRUE)>>)

detect_version(e) ==
    IF e.failing = "detect_version" THEN Err(IoError("detect_version"), <<>>)
    ELSE Ok([home_dir |-> <<"/","h","o","m","e","/",".","g","n","u","p","g">>], <<>>)

configure_defaults(e, home_dir) ==
    Mutate(e.failing = "configure_defaults", "configure_defaults", home_dir, 0, <<>>)

reload_agent(e) == Ok(<<>>, <<Effect("reload_agent", <<>>, 0, <<>>, TRUE)>>)

\* configure_agent_defaults writes gpg-agent.conf and then reloads the agent.
configure_agent_defaults(e, home_dir) ==
    AndThen(Mutate(e.failing = "configure_agent_defaults", "configure_agent_defaults",
                   home_dir, 0, <<>>),
            LAMBDA u : reload_agent(e))

preset_passphrase(e, keygrip, passphrase) ==
    Mutate(e.failing = "preset_passphrase", "preset_passphrase", keygrip, 0,
           <<<<"PRESET_PASSPHRASE", passphrase>>>>)

assign_trust_level(e, key_id, trust_level) ==
    Mutate(e.failing = "assign_trust_level", "assign_trust_level", key_id,
           trust_level, <<>>)

---------------------------------------------------------------------------
(* git.rs: the signing configuration and its sinks                         *)

SigningConfig(user_name, user_email, key_id, commit_sign, tag_sign, push_sign) ==
    [user_name |-> user_name, user_email |-> user_email, key_id |-> key_id,
     commit_sign |-> commit_sign, tag_sign |-> tag_sign, push_sign |-> push_sign]

bool_text(b) == IF b THEN <<"t","r","u","e">> ELSE <<"f","a","l","s","e">>

\* apply_signing_config: the key/value pairs set, in order.
apply_signing_config(git_cfg) ==
    <<<<"user.name", git_cfg.user_name>>,
      <<"user.email", git_cfg.user_email>>,
      <<"user.signingKey", git_cfg.key_id>>,
      <<"commit.gpgsign", bool_text(git_cfg.commit_sign)>>,
      <<"tag.gpgsign", bool_text(git_cfg.tag_sign)>>>>
    \o (IF git_cfg.tag_sign THEN <<<<"push.gpgsign", <<"i","f","-","a","s","k","e","d">>>>>> ELSE <<>>)

\* configure_signing: the repository's own configuration store.
configure_signing(e, git_cfg) ==
    Mutate(e.failing = "git_config", "configure_signing", <<"l","o","c","a","l">>, 0,
           apply_signing_config(git_cfg))

\* configure_signing_global: the user's default configuration store.
configure_signing_global(e, git_cfg) ==
    Mutate(e.failing = "git_config", "configure_signing_global", <<"g","l","o","b","a","l">>, 0,
           apply_signing_config(git_cfg))

\* is_repo: whether the working directory opens as a repository.
is_repo(e) == e.is_repo

\* impl Display for SigningConfig: the lines shown.
signing_config_display(git_cfg) ==
    <<git_cfg.user_name, git_cfg.user_email, git_cfg.key_id,
      bool_text(git_cfg.commit_sign), bool_text(git_cfg.tag_sign)>>
    \o (IF git_cfg.push_sign THEN <<<<"i","f","-","a","s","k","e","d">>>> ELSE <<>>)

---------------------------------------------------------------------------
(* import.rs: the steps of GpgImport::import over one run                  *)

\* A block of the report printed to stdout: its heading and the values shown.
Report(block, detail) == [block |-> block, detail |-> detail]

\* str::trim for the whitespace the model's inputs contain.
Whitespace == {" ", "\n", "\t", "\r"}
RECURSIVE trim_start(_)
trim_start(s) ==
    IF s # <<>> /\ Head(s) \in Whitespace THEN trim_start(Tail(s)) ELSE s
RECURSIVE trim_end(_)
trim_end(s) ==
    IF s # <<>> /\ s[Len(s)] \in Whitespace THEN trim_end(Take(s, Len(s) - 1)) ELSE s
trim(s) == trim_end(trim_start(s))

\* The run stops with the error (or the panic) of the call that failed; the
\* calls it made before failing stay made.
Abort(r, res) ==
    [r EXCEPT !.pc = "done",
              !.status = IF res.st = "Panic" THEN "panic" ELSE "err",
              !.error = res.err,
              !.failed_at = r.pc,
              !.calls = r.calls \o res.calls]

\* let x = f()?; K(run, x) inside a step of import(): an Err is returned to
\* the caller of import() at once.
Try(r, res, K(_, _)) ==
    IF res.st # "Ok" THEN Abort(r, res)
    ELSE K([r EXCEPT !.calls = r.calls \o res.calls], res.val)

println(r, block, detail) == [r EXCEPT !.out = Append(r.out, Report(block, detail))]

Goto(r, pc) == [r EXCEPT !.pc = pc]

\* import(), lines 68-74: the dry-run notice, detect_version, the version block.
import_detect_version(c, e, r) ==
    With(IF c.dry_run THEN println(r, "dry-run notice", <<>>) ELSE r, LAMBDA r0 :
    Try(r0, detect_version(e), LAMBDA r1, info :
        Goto(println([r1 EXCEPT !.info = Some(info)], "Detected GnuPG", <<info.home_dir>>),
             "import_gpg_key")))

\* The first statement of import_gpg_key: preview under dry-run, otherwise
\* import the key and extract its details from the key store (which then holds
\* what the key material held).
obtain_private_key(c, e) ==
    IF c.dry_run THEN preview_key(trim(c.key), e)
    ELSE AndThen(import_secret_key(trim(c.key), e), LAMBDA key_id :
             extract_key_info(key_id, e.key))

\* The defaults written before the key is obtained and validated.
import_gpg_key_defaults_first(c, e, r) ==
    Try(r, IF c.dry_run THEN Ok(<<>>, <<>>)
           ELSE configure_defaults(e, Unwrap(r.info).home_dir), LAMBDA r0, u :
    Try(r0, obtain_private_key(c, e), LAMBDA r1, private_key :
    With(println([r1 EXCEPT !.private_key = Some(private_key)], "Imported GPG key",
               <<private_key.secret_key.key_id>>), LAMBDA r2 :
        IF c.dry_run THEN Goto(r2, "configure_gpg_passphrase")
        ELSE Try(r2, configure_agent_defaults(e, Unwrap(r.info).home_dir), LAMBDA r4, v :
                 Goto(r4, "configure_gpg_passphrase")))))

\* A failure of configure_defaults dropped (`let _ = ...`) instead of returned.
import_gpg_key_ignoring_failure(c, e, r) ==
    Try(r, obtain_private_key(c, e), LAMBDA r1, private_key :
    With(println([r1 EXCEPT !.private_key = Some(private_key)], "Imported GPG key",
               <<private_key.secret_key.key_id>>), LAMBDA r2 :
        IF c.dry_run THEN Goto(r2, "configure_gpg_passphrase")
        ELSE With([r2 EXCEPT !.calls = r2.calls
                       \o configure_defaults(e, Unwrap(r.info).home_dir).calls], LAMBDA r3 :
             Try(r3, configure_agent_defaults(e, Unwrap(r.info).home_dir), LAMBDA r4, v :
                 Goto(r4, "configure_gpg_passphrase")))))

\* import_gpg_key
import_gpg_key(c, e, r) ==
    Try(r, obtain_private_key(c, e), LAMBDA r1, private_key :
    With(println([r1 EXCEPT !.private_key = Some(private_key)], "Imported GPG key",
               <<private_key.secret_key.key_id>>), LAMBDA r2 :
        IF c.dry_run THEN Goto(r2, "configure_gpg_passphrase")
        ELSE Try(r2, configure_defaults(e, Unwrap(r.info).home_dir), LAMBDA r3, u :
             Try(r3, configure_agent_defaults(e, Unwrap(r.info).home_dir), LAMBDA r4, v :
                 Goto(r4, "configure_gpg_passphrase")))))

\* The subkey's keygrip preset before the primary key's.
configure_gpg_passphrase_subkey_first(c, e, r) ==
    LET private_key == Unwrap(r.private_key)
        Shown(x) ==
            Goto(println(x, "Setting Passphrase",
                       <<private_key.secret_key.keygrip, private_key.secret_key.key_id,
                         private_key.secret_subkey.keygrip,
                         private_key.secret_subkey.key_id>>),
                 "configure_gpg_trust_level")
    IN  IF ~IsSome(c.passphrase) THEN Goto(r, "configure_gpg_trust_level")
        ELSE With(trim(Unwrap(c.passphrase)), LAMBDA passphrase_cleaned :
            IF c.dry_run THEN Shown(r)
            ELSE Try(r, preset_passphrase(e, private_key.secret_subkey.keygrip,
                                          passphrase_cleaned), LAMBDA r1, u :
                 Try(r1, preset_passphrase(e, private_key.secret_key.keygrip,
                                           passphrase_cleaned), LAMBDA r2, v :
                     Shown(r2))))

\* configure_gpg_passphrase
configure_gpg_passphrase(c, e, r) ==
    LET private_key == Unwrap(r.private_key)
        Shown(x) ==
            Goto(println(x, "Setting Passphrase",
                       <<private_key.secret_key.keygrip, private_key.secret_key.key_id,
                         private_key.secret_subkey.keygrip,
                         private_key.secret_subkey.key_id>>),
                 "configure_gpg_trust_level")
    IN  IF ~IsSome(c.passphrase) THEN Goto(r, "configure_gpg_trust_level")
        ELSE With(trim(Unwrap(c.passphrase)), LAMBDA passphrase_cleaned :
            IF c.dry_run THEN Shown(r)
            ELSE Try(r, preset_passphrase(e, private_key.secret_key.keygrip,
                                          passphrase_cleaned), LAMBDA r1, u :
                 Try(r1, preset_passphrase(e, private_key.secret_subkey.keygrip,
                                           passphrase_cleaned), LAMBDA r2, v :
                     Shown(r2))))

\* The trust block printed only when the trust level was assigned.
configure_gpg_trust_level_silent_dry_run(c, e, r) ==
    LET private_key == Unwrap(r.private_key)
        Shown(x) ==
            Goto(println(x, "Setting Trust Level",
                       <<to_string(Unwrap(c.trust_level)), private_key.secret_key.key_id>>),
                 "configure_git_signing")
    IN  IF ~IsSome(c.trust_level) \/ c.dry_run THEN Goto(r, "configure_git_signing")
        ELSE Try(r, assign_trust_level(e, private_key.secret_key.key_id,
                                       Unwrap(c.trust_level)), LAMBDA r1, u :
                 Shown(r1))

\* configure_gpg_trust_level
configure_gpg_trust_level(c, e, r) ==
    LET private_key == Unwrap(r.private_key)
        Shown(x) ==
            Goto(println(x, "Setting Trust Level",
                       <<to_string(Unwrap(c.trust_level)), private_key.secret_key.key_id>>),
                 "configure_git_signing")
    IN  IF ~IsSome(c.trust_level) THEN Goto(r, "configure_git_signing")
        ELSE IF c.dry_run THEN Shown(r)
        ELSE Try(r, assign_trust_level(e, private_key.secret_key.key_id,
                                       Unwrap(c.trust_level)), LAMBDA r1, u :
                 Shown(r1))

\* An override accepted only when it names the primary key.
resolve_signing_key_primary_only(c, private_key) ==
    IF IsSome(c.fingerprint)
    THEN IF Unwrap(c.fingerprint) # private_key.secret_key.fingerprint
         THEN Err(Error("FingerprintNotFound", 0, Unwrap(c.fingerprint)), <<>>)
         ELSE Ok(Unwrap(c.fingerprint), <<>>)
    ELSE Ok(private_key.secret_key.key_id, <<>>)

\* resolve_signing_key
resolve_signing_key(c, private_key) ==
    IF IsSome(c.fingerprint)
    THEN IF Unwrap(c.fingerprint) # private_key.secret_key.fingerprint
            /\ Unwrap(c.fingerprint) # private_key.secret_subkey.fingerprint
         THEN Err(Error("FingerprintNotFound", 0, Unwrap(c.fingerprint)), <<>>)
         ELSE Ok(Unwrap(c.fingerprint), <<>>)
    ELSE Ok(private_key.secret_key.key_id, <<>>)

\* The sink written whether or not the run is a dry run.
apply_git_config_unguarded(c, e, r, git_cfg, repo) ==
    IF c.git_global_config
    THEN Try(r, configure_signing_global(e, git_cfg),
             LAMBDA r1, u : println(r1, "Git config set (global)", <<>>))
    ELSE IF repo
    THEN Try(r, configure_signing(e, git_cfg),
             LAMBDA r1, u : println(r1, "Git config set (local)", <<>>))
    ELSE r

\* The repository's store written as well when the global one was asked for.
apply_git_config_both_sinks(c, e, r, git_cfg, repo) ==
    With(IF c.git_global_config
         THEN Try(r, IF c.dry_run THEN Ok(<<>>, <<>>) ELSE configure_signing_global(e, git_cfg),
                  LAMBDA r1, u : println(r1, "Git config set (global)", <<>>))
         ELSE r, LAMBDA r0 :
        IF r0.pc # "done" /\ repo
        THEN Try(r0, IF c.dry_run THEN Ok(<<>>, <<>>) ELSE configure_signing(e, git_cfg),
                 LAMBDA r1, u : println(r1, "Git config set (local)", <<>>))
        ELSE r0)

\* apply_git_config: the sink written, if any, and the heading printed.
apply_git_config(c, e, r, git_cfg, repo) ==
    IF c.git_global_config
    THEN Try(r, IF c.dry_run THEN Ok(<<>>, <<>>) ELSE configure_signing_global(e, git_cfg),
             LAMBDA r1, u : println(r1, "Git config set (global)", <<>>))
    ELSE IF repo
    THEN Try(r, IF c.dry_run THEN Ok(<<>>, <<>>) ELSE configure_signing(e, git_cfg),
             LAMBDA r1, u : println(r1, "Git config set (local)", <<>>))
    ELSE r

\* `self.apply_git_config(..)?; println!("{git_cfg}"); Ok(())`
Applied(r, git_cfg) ==
    IF r.pc = "done" THEN r
    ELSE [println(r, "SigningConfig", signing_config_display(git_cfg))
             EXCEPT !.pc = "done", !.status = "ok", !.signing_key = Some(git_cfg.key_id)]

\* The signing key resolved before the step decides whether it has work.
configure_git_signing_resolving_first(c, e, r) ==
    LET private_key == Unwrap(r.private_key)
        Finished(x) == [x EXCEPT !.pc = "done", !.status = "ok"]
    IN  Try(r, resolve_signing_key(c, private_key), LAMBDA r1, signing_key :
            IF c.skip_git THEN Finished(r1)
            ELSE IF ~c.git_global_config /\ ~is_repo(e) THEN Finished(r1)
            ELSE With(SigningConfig(private_key.user_name, private_key.user_email,
                                    signing_key, TRUE, TRUE, TRUE), LAMBDA git_cfg :
                     Applied(apply_git_config(c, e, r1, git_cfg, is_repo(e)), git_cfg)))

\* configure_git_signing
configure_git_signing(c, e, r) ==
    LET private_key == Unwrap(r.private_key)
        Finished == [r EXCEPT !.pc = "done", !.status = "ok"]
    IN  IF c.skip_git THEN Finished
        ELSE IF ~c.git_global_config /\ ~is_repo(e) THEN Finished
        ELSE Try(r, resolve_signing_key(c, private_key), LAMBDA r1, signing_key :
             With(SigningConfig(private_key.user_name, private_key.user_email,
                                signing_key, TRUE, TRUE, TRUE), LAMBDA git_cfg :
                 Applied(apply_git_config(c, e, r1, git_cfg, is_repo(e)), git_cfg)))

\* The step of import() the run stands at.
Step(c, e, r) ==
    CASE r.pc = "detect_version" -> import_detect_version(c, e, r)
      [] r.pc = "import_gpg_key" -> import_gpg_key(c, e, r)
      [] r.pc = "configure_gpg_passphrase" -> configure_gpg_passphrase(c, e, r)
      [] r.pc = "configure_gpg_trust_level" -> configure_gpg_trust_level(c, e, r)
      [] r.pc = "configure_git_signing" -> configure_git_signing(c, e, r)
      [] OTHER -> r

\* import(): the steps in order, each only if the one before returned Ok.
RECURSIVE import(_, _, _)
import(c, e, r) == IF r.pc = "done" THEN r ELSE import(c, e, Step(c, e, r))

---------------------------------------------------------------------------
(* Spec: one run of GpgImport::import                                      *)

\* Key inputs: valid base64 with the trailing newline of an environment
\* variable, base64 with an invalid symbol, and the empty string.
GoodKey == <<"Q","U","J","D","\n">>
BadKey == <<"Q","U","!","D">>
EmptyKey == <<>>
Keys == {GoodKey, BadKey, EmptyKey}

Passphrases == {None, Some(<<" ","g","o","t","h","a","m","\n">>)}

UnrelatedFingerprint == <<"D","E","A","D","B","E","E","F">>
Fingerprints ==
    {None, Some(Identifiers[1].fingerprint), Some(Identifiers[2].fingerprint),
     Some(UnrelatedFingerprint)}

TrustLevels == {None, Some(1), Some(5), Some(6)}

\* GpgImport::new and the with_* / skip_git / git_global_config / dry_run setters.
Configs ==
    [key : Keys, passphrase : Passphrases, fingerprint : Fingerprints,
     trust_level : TrustLevels, skip_git : BOOLEAN, git_global_config : BOOLEAN,
     dry_run : BOOLEAN]

\* The keys the key material can hold: the primary key's expiration ranges
\* around Now, the subkey has none or one on either side of the boundary.
SubkeyExpirations == {None, Some(Now), Some(Now + 1)}

MaterialKeys == {Some(StoredKey(1, <<"b","a","t","m","a","n">>, 7, se, be)) :
                    se \in Expirations, be \in SubkeyExpirations}

\* The call of the surrounding system that fails in this environment, if any.
FailingOps ==
    {"none", "detect_version", "configure_defaults", "configure_agent_defaults",
     "preset_passphrase", "assign_trust_level", "git_config"}

\* The environment of a run: what the key material decodes to (an OpenPGP key
\* or not), whether the working directory is a repository, what fails.
Environments(key) ==
    [key : IF key = GoodKey THEN MaterialKeys \cup {None} ELSE {None},
     is_repo : BOOLEAN, failing : FailingOps]

NewRun ==
    [pc |-> "detect_version", status |-> "running", error |-> NoError,
     failed_at |-> "none", info |-> None, private_key |-> None,
     signing_key |-> None, calls |-> <<>>, out |-> <<>>]

Init ==
    /\ cfg \in Configs
    /\ env \in Environments(cfg.key)
    /\ run = NewRun
    /\ input = Idle /\ text = <<>> /\ parsed = Pending /\ returned = Idle

Unused == UNCHANGED <<cfg, env, input, text, parsed, returned>>

DetectVersion ==
    /\ run.pc = "detect_version"
    /\ run' = import_detect_version(cfg, env, run)
    /\ Unused

ImportGpgKey ==
    /\ run.pc = "import_gpg_key"
    /\ run' = import_gpg_key(cfg, env, run)
    /\ Unused

ConfigureGpgPassphrase ==
    /\ run.pc = "configure_gpg_passphrase"
    /\ run' = configure_gpg_passphrase(cfg, env, run)
    /\ Unused

ConfigureGpgTrustLevel ==
    /\ run.pc = "configure_gpg_trust_level"
    /\ run' = configure_gpg_trust_level(cfg, env, run)
    /\ Unused

ConfigureGitSigning ==
    /\ run.pc = "configure_git_signing"
    /\ run' = configure_git_signing(cfg, env, run)
    /\ Unused

Next ==
    \/ DetectVersion
    \/ ImportGpgKey
    \/ ConfigureGpgPassphrase
    \/ ConfigureGpgTrustLevel
    \/ ConfigureGitSigning

Spec == Init /\ [][Next]_vars

---------------------------------------------------------------------------
(* CallSpec: one direct call of a public function of gpg.rs or git.rs      *)

\* Key strings that are valid base64 (of non-empty bytes).
ValidKeys == {<<"Q","U","J","D">>, <<"Q","U","J","D","Q","Q","=","=">>, <<"Q","U","J","D","Q","U","I","=">>}

\* Key strings with a symbol outside the alphabet: at the start, in the
\* middle, at the end, at offset 15, twice, a trailing newline, and the
\* string of the integration test.
BadSymbolKeys ==
    {<<"!","U","J","D">>, <<"Q","U","!","D">>, <<"Q","U","J","!">>, <<"Q","-","J","!">>, <<"Q","U","!">>, <<"Q","U","J","D","\n">>,
     <<"Q","U","J","D","Q","U","J","D","Q","U","J","D","Q","U","J","!">>, <<"n","o","t","-","v","a","l","i","d","-","b","a","s","e","6","4","!","!","!">>}

\* Key strings of alphabet symbols only that are not valid base64: a length
\* no encoding has, a last symbol with stray bits, a missing padding.
BadShapeKeys == {<<"Q","U","J","D","R">>, <<"Q","U","J","D","Q","R","=","=">>, <<"Q","U","J">>}

CallKeys == ValidKeys \cup BadSymbolKeys \cup BadShapeKeys \cup {EmptyKey}

UnknownKeyId == <<"N","O","N","E","X","I","S","T","E","N","T","1","2","3","4","5","6","7","8","9","0">>

NoSigningConfig == SigningConfig(<<>>, <<>>, <<>>, FALSE, FALSE, FALSE)

\* A call: the function and its arguments (those of the other functions are
\* left empty).
Call(kind, key, key_id, git_cfg) ==
    [kind |-> kind, key |-> key, key_id |-> key_id, git_cfg |-> git_cfg]

SigningConfigs ==
    {SigningConfig(<<"b","a","t","m","a","n">>, <<"b","a","t","m","a","n","@","d","c",".","c","o","m">>, k, c, t, p) :
        k \in {Identifiers[1].key_id, Identifiers[2].fingerprint},
        c \in BOOLEAN, t \in BOOLEAN, p \in BOOLEAN}

CallRequests ==
    {Call("import_secret_key", k, <<>>, NoSigningConfig) : k \in CallKeys}
    \cup {Call("extract_key_info", <<>>, id, NoSigningConfig) :
             id \in {Identifiers[1].key_id, UnknownKeyId}}
    \cup {Call(f, <<>>, <<>>, g) :
             f \in {"configure_signing", "configure_signing_global", "display"},
             g \in SigningConfigs}

\* env.key is what the key material decodes to for import_secret_key and what
\* the key store holds for extract_key_info.
CallInit ==
    /\ input \in CallRequests
    /\ env \in [key : MaterialKeys \cup {None}, is_repo : {TRUE},
                failing : {"none", "git_config"}]
    /\ returned = Pending
    /\ cfg = Idle /\ run = Idle /\ text = <<>> /\ parsed = Pending

Returns(kind) ==
    /\ input.kind = kind /\ returned = Pending
    /\ UNCHANGED <<cfg, env, run, input, text, parsed>>

CallImportSecretKey ==
    /\ Returns("import_secret_key")
    /\ returned' = import_secret_key(input.key, env)

CallExtractKeyInfo ==
    /\ Returns("extract_key_info")
    /\ returned' = extract_key_info(input.key_id, env.key)

CallConfigureSigning ==
    /\ Returns("configure_signing")
    /\ returned' = configure_signing(env, input.git_cfg)

CallConfigureSigningGlobal ==
    /\ Returns("configure_signing_global")
    /\ returned' = configure_signing_global(env, input.git_cfg)

\* println!("{git_cfg}"): the lines shown are what returns.
CallDisplay ==
    /\ Returns("display")
    /\ returned' = Ok(signing_config_display(input.git_cfg), <<>>)

CallNext ==
    \/ CallImportSecretKey
    \/ CallExtractKeyInfo
    \/ CallConfigureSigning
    \/ CallConfigureSigningGlobal
    \/ CallDisplay

CallSpec == CallInit /\ [][CallNext]_vars

---------------------------------------------------------------------------
(* Reading the state                                                       *)

\* The key the key material holds, and its expiration instants.
Material == Unwrap(env.key)
PrimaryExpiration == Material.secret_key.expiration_date
SubkeyExpiration == Material.secret_subkey.expiration_date

AtOrBeforeNow(expiration) == IsSome(expiration) /\ Unwrap(expiration) <= Now

\* The run is a real run whose import_secret_key returned a key id, so that
\* extract_key_info has been called with it.
Extracted ==
    /\ ~cfg.dry_run
    /\ Len(run.calls) >= 1
    /\ run.calls[1].op = "import_secret_key" /\ run.calls[1].ok

FailedWith(kind) == run.status = "err" /\ run.error.kind = kind

ExpiredKinds == {"SecretKeyExpired", "SecretSubkeyExpired"}

\* The mutating calls of the run, by the function called.
CallsOf(ops) == {k \in 1..Len(run.calls) : run.calls[k].op \in ops}

SigningOps == {"configure_signing", "configure_signing_global"}

---------------------------------------------------------------------------
(* C1, C2: lifecycle validation                                            *)

\* C1: when the primary key has an expiration instant E, extract_key_info fails
\* with the primary-key-expired error (carrying E) exactly when E <= now: it
\* fails for E = now and E = now - 1 and not for E = now + 1.
C1_PrimaryExpiredAtOrBeforeNow ==
    (Extracted /\ IsSome(PrimaryExpiration)) =>
        /\ FailedWith("SecretKeyExpired") <=> Unwrap(PrimaryExpiration) <= Now
        /\ FailedWith("SecretKeyExpired") =>
              /\ run.error.num = Unwrap(PrimaryExpiration)
              /\ run.failed_at = "import_gpg_key"

C1_Witness ==
    /\ Extracted
    /\ PrimaryExpiration = Some(Now)
    /\ FailedWith("SecretKeyExpired")

\* C2: the primary key is checked before the subkey and the first failing
\* check decides: with both expired the error is the primary-key one; the
\* subkey error is reported exactly when the primary key is not expired and
\* the subkey's expiration is at or before now.
C2_PrimaryCheckedBeforeSubkey ==
    Extracted =>
        /\ (AtOrBeforeNow(PrimaryExpiration) /\ AtOrBeforeNow(SubkeyExpiration))
              => FailedWith("SecretKeyExpired")
        /\ FailedWith("SecretSubkeyExpired")
              <=> (~AtOrBeforeNow(PrimaryExpiration) /\ AtOrBeforeNow(SubkeyExpiration))
        /\ FailedWith("SecretSubkeyExpired")
              => run.error.num = Unwrap(SubkeyExpiration)

C2_Witness ==
    /\ Extracted
    /\ AtOrBeforeNow(PrimaryExpiration) /\ AtOrBeforeNow(SubkeyExpiration)
    /\ Unwrap(PrimaryExpiration) # Unwrap(SubkeyExpiration)
    /\ FailedWith("SecretKeyExpired")
    /\ run.error.num = Unwrap(PrimaryExpiration)

---------------------------------------------------------------------------
(* C3, C4, C5: what a run mutates                                          *)

KeyExpired ==
    IsSome(env.key) /\ (AtOrBeforeNow(PrimaryExpiration) \/ AtOrBeforeNow(SubkeyExpiration))

OnlyImported == \A k \in 1..Len(run.calls) : run.calls[k].op = "import_secret_key"

\* C3: a key that lifecycle validation finds expired aborts the run with an
\* expiry error, and that run configures nothing: no defaults, no passphrase
\* preset, no trust assignment, no signing configuration, and no report block
\* after the version.
C3_ExpiredKeyConfiguresNothing ==
    /\ run.error.kind \in ExpiredKinds =>
          /\ run.status = "err" /\ run.pc = "done"
          /\ run.failed_at = "import_gpg_key"
          /\ KeyExpired
    /\ KeyExpired =>
          /\ OnlyImported
          /\ \A k \in 1..Len(run.out) :
                run.out[k].block \in {"dry-run notice", "Detected GnuPG"}
          /\ run.pc \in {"detect_version", "import_gpg_key", "done"}
          /\ run.pc = "done" =>
                /\ run.status = "err"
                /\ run.error.kind \in ExpiredKinds \/ env.failing = "detect_version"

C3_Witness ==
    /\ ~cfg.dry_run /\ env.failing = "none"
    /\ IsSome(cfg.passphrase) /\ IsSome(cfg.trust_level)
    /\ ~cfg.skip_git /\ cfg.git_global_config
    /\ FailedWith("SecretSubkeyExpired")
    /\ Len(run.calls) = 1 /\ OnlyImported

\* C4: under dry-run no call that mutates the key store, the agent
\* configuration, the passphrase cache, the trust database or a git
\* configuration store is ever made, at any step.
C4_DryRunMutatesNothing ==
    cfg.dry_run => run.calls = <<>>

C4_Witness ==
    /\ cfg.dry_run
    /\ IsSome(cfg.passphrase) /\ IsSome(cfg.trust_level)
    /\ ~cfg.skip_git /\ cfg.git_global_config
    /\ run.pc = "done" /\ run.status = "ok"
    /\ Len(run.out) = 7
    /\ run.calls = <<>>

\* The run of the same input with dry_run switched.
Counterpart == import([cfg EXCEPT !.dry_run = ~cfg.dry_run], env, NewRun)

Classification(r) == IF r.status = "ok" THEN "success" ELSE "failure"

\* The errors the validation of the input produces.
ValidationKinds ==
    {"InvalidByteInGpgKey", "SecretKeyExpired", "SecretSubkeyExpired",
     "FingerprintNotFound"}

\* The calls of a real run that can fail on I/O and that a dry run leaves out.
MutatingOps ==
    {"configure_defaults", "configure_agent_defaults", "preset_passphrase",
     "assign_trust_level", "git_config"}

---------------------------------------------------------------------------
(* C6, C7: the signing key and the order of the steps                      *)

\* The signing step went as far as resolving the signing key.
SigningResolved ==
    /\ run.pc = "done"
    /\ run.status = "ok" \/ run.failed_at = "configure_git_signing"
    /\ ~cfg.skip_git
    /\ cfg.git_global_config \/ env.is_repo

\* The value written for user.signingKey by the calls made.
WrittenSigningKeys ==
    {run.calls[k].writes[3][2] : k \in {j \in CallsOf(SigningOps) : run.calls[j].ok}}

\* C6: a fingerprint override is accepted exactly when it equals the
\* fingerprint of the imported primary key or of its subkey, and it is then the
\* signing key; any other override ends the run with fingerprint-not-found
\* (carrying the override) and no signing configuration is written; without an
\* override the signing key is the primary key's identifier.
C6_SigningKeyResolution ==
    SigningResolved =>
        IF IsSome(cfg.fingerprint)
        THEN IF Unwrap(cfg.fingerprint) \in
                    {Material.secret_key.fingerprint, Material.secret_subkey.fingerprint}
             THEN /\ run.error.kind # "FingerprintNotFound"
                  /\ run.status = "ok" => run.signing_key = cfg.fingerprint
                  /\ WrittenSigningKeys \subseteq {Unwrap(cfg.fingerprint)}
             ELSE /\ FailedWith("FingerprintNotFound")
                  /\ run.error.text = Unwrap(cfg.fingerprint)
                  /\ run.signing_key = None
                  /\ CallsOf(SigningOps) = {}
        ELSE /\ run.error.kind # "FingerprintNotFound"
             /\ run.status = "ok" => run.signing_key = Some(Material.secret_key.key_id)
             /\ WrittenSigningKeys \subseteq {Material.secret_key.key_id}

C6_Witness ==
    /\ SigningResolved /\ ~cfg.dry_run
    /\ cfg.fingerprint = Some(Material.secret_subkey.fingerprint)
    /\ run.status = "ok"
    /\ run.signing_key = cfg.fingerprint
    /\ WrittenSigningKeys = {Material.secret_subkey.fingerprint}

\* The place of a mutating call and of a report block in the pipeline.
CallRank(op) ==
    CASE op = "import_secret_key" -> 1
      [] op = "configure_defaults" -> 2
      [] op = "configure_agent_defaults" -> 3
      [] op = "reload_agent" -> 4
      [] op = "preset_passphrase" -> 5
      [] op = "assign_trust_level" -> 6
      [] op \in SigningOps -> 7

BlockRank(block) ==
    CASE block = "dry-run notice" -> 0
      [] block = "Detected GnuPG" -> 1
      [] block = "Imported GPG key" -> 2
      [] block = "Setting Passphrase" -> 3
      [] block = "Setting Trust Level" -> 4
      [] block \in {"Git config set (global)", "Git config set (local)"} -> 5
      [] block = "SigningConfig" -> 6

SigningRequested == ~cfg.skip_git /\ (cfg.git_global_config \/ env.is_repo)

Outcome(kind, step) == [kind |-> kind, step |-> step]

\* The first step, in pipeline order, that the input and the environment make
\* fail, and how.
FirstFailure ==
    IF env.failing = "detect_version" THEN Outcome("Io", "detect_version")
    ELSE IF cfg.key = BadKey THEN Outcome("InvalidByteInGpgKey", "import_gpg_key")
    ELSE IF cfg.key = EmptyKey
    THEN Outcome(IF cfg.dry_run THEN "EmptyKeyInput" ELSE "panic", "import_gpg_key")
    ELSE IF env.key = None
    THEN Outcome(IF cfg.dry_run THEN "InvalidGpgKeyData" ELSE "panic", "import_gpg_key")
    ELSE IF AtOrBeforeNow(PrimaryExpiration)
    THEN Outcome("SecretKeyExpired", "import_gpg_key")
    ELSE IF AtOrBeforeNow(SubkeyExpiration)
    THEN Outcome("SecretSubkeyExpired", "import_gpg_key")
    ELSE IF ~cfg.dry_run /\ env.failing \in {"configure_defaults", "configure_agent_defaults"}
    THEN Outcome("Io", "import_gpg_key")
    ELSE IF ~cfg.dry_run /\ IsSome(cfg.passphrase) /\ env.failing = "preset_passphrase"
    THEN Outcome("Io", "configure_gpg_passphrase")
    ELSE IF ~cfg.dry_run /\ IsSome(cfg.trust_level) /\ env.failing = "assign_trust_level"
    THEN Outcome("Io", "configure_gpg_trust_level")
    ELSE IF SigningRequested /\ cfg.fingerprint = Some(UnrelatedFingerprint)
    THEN Outcome("FingerprintNotFound", "configure_git_signing")
    ELSE IF SigningRequested /\ ~cfg.dry_run /\ env.failing = "git_config"
    THEN Outcome("Io", "configure_git_signing")
    ELSE Outcome("none", "none")

\* How the run ended.
Ended ==
    Outcome(IF run.status = "panic" THEN "panic" ELSE run.error.kind, run.failed_at)

---------------------------------------------------------------------------
(* C8, C9, C10: the listing parser                                         *)

\* The offset of the first c in s, or 0.
FirstIndex(s, c) ==
    IF \E k \in 1..Len(s) : s[k] = c
    THEN CHOOSE k \in 1..Len(s) : s[k] = c /\ \A j \in 1..(k - 1) : s[j] # c
    ELSE 0

\* s cut at every c.
RECURSIVE Split(_, _)
Split(s, c) ==
    With(FirstIndex(s, c), LAMBDA k :
        IF k = 0 THEN <<s>> ELSE <<Take(s, k - 1)>> \o Split(Drop(s, k), c))

\* The records of a listing, each as its colon-separated fields.
RECURSIVE FieldsOfEach(_)
FieldsOfEach(records) ==
    IF records = <<>> THEN <<>>
    ELSE <<Split(Head(records), ":")>> \o FieldsOfEach(Tail(records))

ListingFields(t) == FieldsOfEach(Split(t, "\n"))

\* The position of the first record of type t among records from..to.
RecordAt(recs, from, to, t) ==
    CHOOSE k \in from..to :
        recs[k][1] = t /\ \A j \in from..(k - 1) : recs[j][1] # t

\* Field n of that record.
FieldIn(recs, from, to, t, n) == recs[RecordAt(recs, from, to, t)][n]

ExpirationMatches(date, field) ==
    IF field = <<>> THEN date = None
    ELSE IsSome(date) /\ to_string(Unwrap(date)) = field

\* C8: in a well-formed listing, for the sec and for the ssb record, a
\* non-empty field 7 makes the segment's expiration_date Some(the integer the
\* field denotes) and an empty field 7 makes it None.
C8_ExpirationFieldDecidesExpirationDate ==
    parsed # Pending =>
        /\ parsed.kind = "Ok"
        /\ With(ListingFields(text), LAMBDA recs :
           With(RecordAt(recs, 1, Len(recs), <<"s","s","b">>), LAMBDA b :
              /\ ExpirationMatches(parsed.key.secret_key.expiration_date,
                                   FieldIn(recs, 1, b - 1, <<"s","e","c">>, 7))
              /\ ExpirationMatches(parsed.key.secret_subkey.expiration_date,
                                   FieldIn(recs, b, Len(recs), <<"s","s","b">>, 7))))

C8_Witness ==
    /\ input.kind = "listing"
    /\ parsed # Pending /\ parsed.kind = "Ok"
    /\ parsed.key.secret_key.expiration_date = None
    /\ parsed.key.secret_subkey.expiration_date = Some(Now)

\* A segment's five values are those of the first record of type t and of
\* the first fpr and grp records among records from..to.
SegmentMatches(d, recs, from, to, t) ==
    /\ d.key_id = FieldIn(recs, from, to, t, 5)
    /\ to_string(d.creation_date) = FieldIn(recs, from, to, t, 6)
    /\ expiration_field(d.expiration_date) = FieldIn(recs, from, to, t, 7)
    /\ d.fingerprint = FieldIn(recs, from, to, <<"f","p","r">>, 10)
    /\ d.keygrip = FieldIn(recs, from, to, <<"g","r","p">>, 10)

\* C9: in a listing with a sec block and an ssb block, the primary segment's
\* creation date, expiration date, key_id, fingerprint and keygrip are those of
\* the records before the ssb record, and the subkey's are those of the ssb
\* record and the records after it.
C9_SegmentsNotConflated ==
    parsed # Pending =>
        /\ parsed.kind = "Ok"
        /\ With(ListingFields(text), LAMBDA recs :
           With(RecordAt(recs, 1, Len(recs), <<"s","s","b">>), LAMBDA b :
              /\ SegmentMatches(parsed.key.secret_key, recs, 1, b - 1, <<"s","e","c">>)
              /\ SegmentMatches(parsed.key.secret_subkey, recs, b, Len(recs), <<"s","s","b">>)))

C9_Witness ==
    /\ input.kind = "listing"
    /\ parsed # Pending /\ parsed.kind = "Ok"
    /\ parsed.key.secret_key.fingerprint = Identifiers[2].fingerprint
    /\ parsed.key.secret_subkey.fingerprint = Identifiers[1].fingerprint
    /\ parsed.key.secret_key.keygrip # parsed.key.secret_subkey.keygrip
    /\ parsed.key.secret_key.expiration_date = Some(Now + 1)
    /\ parsed.key.secret_subkey.expiration_date = Some(Now - 1)

---------------------------------------------------------------------------
(* C11 .. C14: import_secret_key and extract_key_info called directly      *)

Called(kind) == input.kind = kind /\ returned # Pending

\* The position of the first symbol of key that is neither of the alphabet nor
\* a padding sign, or 0.
FirstBadSymbol(key) ==
    IF \E k \in 1..Len(key) : key[k] \notin Base64Alphabet \cup {"="}
    THEN CHOOSE k \in 1..Len(key) :
            /\ key[k] \notin Base64Alphabet \cup {"="}
            /\ \A j \in 1..(k - 1) : key[j] \in Base64Alphabet \cup {"="}
    ELSE 0

InvalidByte(key) ==
    Error("InvalidByteInGpgKey", FirstBadSymbol(key) - 1, <<key[FirstBadSymbol(key)]>>)

C12_EmptyKeyIsEmptyKeyInput ==
    (Called("import_secret_key") /\ input.key = EmptyKey) =>
        /\ returned.st = "Err"
        /\ returned.err.kind = "EmptyKeyInput"
        /\ returned.calls = <<>>

\* The key identifier the diagnostic stream of the import names.
ImportedKeyId == Material.secret_key.key_id

\* C13: for valid base64, when the key tool rejects the key material
\* import_secret_key returns the InvalidGpgKeyData error (an error value, not a
\* panic), and when the diagnostic stream names the imported key it returns
\* the text between "gpg: key " and the next colon.
C13_RejectedKeyIsInvalidKeyData ==
    (Called("import_secret_key") /\ input.key \in ValidKeys) =>
        IF IsSome(env.key)
        THEN returned.st = "Ok" /\ returned.val = ImportedKeyId
        ELSE returned.st = "Err" /\ returned.err.kind = "InvalidGpgKeyData"

\* C14: extract_key_info called with an identifier the key store does not
\* hold fails with the KeyNotFound error carrying the identifier, which is not
\* the error of a malformed listing.
C14_UnknownIdIsKeyNotFound ==
    (Called("extract_key_info")
        /\ GpgListSecretKeys(env.key, input.key_id) = <<>>) =>
        /\ returned.st = "Err"
        /\ returned.err.kind = "KeyNotFound"
        /\ returned.err.text = input.key_id

---------------------------------------------------------------------------
(* DamagedSpec: the listing parser applied to listings other than the      *)
(* well-formed ones: cut short, with a record left out, with a field       *)
(* replaced, with a record of another type added                           *)

\* The pieces joined again with the separator between them.
RECURSIVE Join(_, _)
Join(pieces, c) ==
    IF pieces = <<>> THEN <<>>
    ELSE IF Len(pieces) = 1 THEN pieces[1]
    ELSE pieces[1] \o <<c>> \o Join(Tail(pieces), c)

\* The records of a listing without those at the positions in dropped.
RECURSIVE WithoutRecords(_, _, _)
WithoutRecords(records, dropped, k) ==
    IF k > Len(records) THEN <<>>
    ELSE (IF k \in dropped THEN <<>> ELSE <<records[k]>>)
         \o WithoutRecords(records, dropped, k + 1)

\* The listing with field f of record l replaced by value.
WithField(t, l, f, value) ==
    With(Split(t, "\n"), LAMBDA records :
        Join([records EXCEPT ![l] = Join([Split(records[l], ":") EXCEPT ![f] = value], ":")],
             "\n"))

\* The listing with one more record after its first p records.
WithRecordAfter(t, p, record) ==
    With(Split(t, "\n"), LAMBDA records :
        Join(SubSeq(records, 1, p) \o <<record>> \o SubSeq(records, p + 1, Len(records)),
             "\n"))

\* The positions of the records of a listing: sec, fpr, grp, uid, ssb, fpr, grp.
SecRecord == 1
UidRecord == 4
SsbRecord == 5
AllFpr == {2, 6}
AllGrp == {3, 7}
SubkeyBlock == {5, 6, 7}

\* The fields of a sec or ssb record that hold instants.
CreationField == 6
ExpirationField == 7

\* Records of other types the key tool prints: the trust database's and a
\* signature's.
UnrelatedRecords == {<<"t","r","u",":",":","1",":","7",":","0",":","3",":","1",":","5">>, <<"s","i","g",":",":",":","1",":","A","1","B","2","C","3","D","4",":","7",":",":",":",
        ":","b","a","t","m","a","n",":","1","3","x",":">>}

\* The number of records of a listing of one key with one subkey.
ListingLength == 7

DamagedKeys ==
    {StoredKey(1, <<"b","a","t","m","a","n">>, 7, Some(Now + 1), None),
     StoredKey(2, <<"b","r","u","c","e"," ","w","a","y","n","e">>, Now, None, Some(Now))}

\* Texts that are not integers, the empty text among them.
NotIntegers == {<<"2","0","x","6">>, <<"-">>, <<"1",".","5">>, <<>>}

Damage(kind, key, cut, dropped, record, field, value) ==
    [kind |-> kind, key |-> key, cut |-> cut, dropped |-> dropped,
     record |-> record, field |-> field, value |-> value]

\* A cut leaves at least the last colon of the last record out.
Damages ==
    {Damage("truncated", k, n, {}, 0, 0, <<>>) :
        k \in DamagedKeys, n \in 0..(Len(WellFormedListing(StoredKey(1, <<"b","a","t","m","a","n">>, 7, None, None))) - 2)}
    \cup {Damage("without", k, 0, d, 0, 0, <<>>) :
             k \in DamagedKeys,
             d \in {{SecRecord}, {UidRecord}, AllFpr, AllGrp, {2}, {3}, SubkeyBlock}}
    \cup {Damage("garbled", k, 0, {}, r, f, v) :
             k \in DamagedKeys, r \in {SecRecord, SsbRecord},
             f \in {CreationField, ExpirationField}, v \in NotIntegers}
    \cup {Damage("interleaved", k, 0, {}, r, 0, v) :
             k \in DamagedKeys, r \in 0..ListingLength, v \in UnrelatedRecords}

DamagedInit ==
    /\ input \in Damages
    /\ text = <<>>
    /\ parsed = Pending
    /\ cfg = Idle /\ env = Idle /\ run = Idle /\ returned = Idle

\* What every damaging step requires and leaves alone.
Undamaged(kind) ==
    /\ input.kind = kind /\ text = <<>> /\ parsed = Pending
    /\ UNCHANGED <<cfg, env, run, input, parsed, returned>>

Truncate ==
    /\ Undamaged("truncated")
    /\ text' = Take(WellFormedListing(input.key), input.cut)

LeaveOut ==
    /\ Undamaged("without")
    /\ text' = Join(WithoutRecords(Split(WellFormedListing(input.key), "\n"),
                                   input.dropped, 1), "\n")

Garble ==
    /\ Undamaged("garbled")
    /\ text' = WithField(WellFormedListing(input.key), input.record, input.field,
                         input.value)

Interleave ==
    /\ Undamaged("interleaved")
    /\ text' = WithRecordAfter(WellFormedListing(input.key), input.record, input.value)

\* An empty text is parsed too (a cut at 0).
ParseDamaged ==
    /\ input.kind \in {"truncated", "without", "garbled", "interleaved"}
    /\ parsed = Pending
    /\ text # <<>> \/ (input.kind = "truncated" /\ input.cut = 0)
    /\ parsed' = from_str(text)
    /\ UNCHANGED <<cfg, env, run, input, text, returned>>

DamagedNext == Truncate \/ LeaveOut \/ Garble \/ Interleave \/ ParseDamaged

DamagedSpec == DamagedInit /\ [][DamagedNext]_vars

---------------------------------------------------------------------------
(* C15 .. C17: the listing parser on damaged listings                      *)

Damagedly(kind) == input.kind = kind /\ parsed # Pending

\* A field that holds no integer where one is required: any creation date,
\* and an expiration date that is not empty.
NotAnInteger ==
    /\ Damagedly("garbled")
    /\ input.field = CreationField \/ input.value # <<>>

\* C15: the listing parser returns a key record or a parse failure for every
\* text and never panics; a sec or ssb record whose creation date, or
\* non-empty expiration date, is not an integer gives a parse failure, and so
\* does a listing that was cut short.
C15_ParserIsTotal ==
    /\ parsed # Pending => parsed.kind \in {"Ok", "Err"}
    /\ NotAnInteger => parsed.kind = "Err"
    /\ Damagedly("truncated") => parsed.kind = "Err"

\* C16: a listing with sec, fpr, grp and uid records and no ssb record parses
\* into a record of the primary segment whose subkey is absent.
C16_SubkeyIsOptional ==
    Damagedly("without") /\ input.dropped = SubkeyBlock
        => /\ parsed.kind = "Ok"
           /\ parsed.key.secret_key = input.key.secret_key
           /\ parsed.key.secret_subkey = None

\* The text a search that fails leaves unconsumed, from the records that
\* precede it: the whole text without a sec record; what follows the three
\* fields of the sec record without any fpr record; what follows the primary
\* fingerprint without any grp record; what follows the primary keygrip
\* without a uid record. Without the primary fpr or grp record alone the
\* search takes the subkey's, and the uid search starts after the last keygrip.
Unconsumed(dropped, k, t) ==
    With(Split(t, "\n"), LAMBDA records :
        CASE dropped = {SecRecord} -> t
          [] dropped = AllFpr ->
                Drop(t, Len(segment_records(<<"s","e","c">>, <<":">>, k.secret_key)))
          [] dropped = AllGrp ->
                Drop(t, Len(records[1]) + 1 + Len(<<"f","p","r",":",":",":",":",":",":",":",":",":">>)
                        + Len(k.secret_key.fingerprint))
          [] dropped = {UidRecord} ->
                Drop(t, Len(records[1]) + 1 + Len(records[2]) + 1
                        + Len(<<"g","r","p",":",":",":",":",":",":",":",":",":">>) + Len(k.secret_key.keygrip))
          [] OTHER -> <<":","\n">>)

RequiredRecordMissing ==
    Damagedly("without") /\ input.dropped # SubkeyBlock

\* C17: when a sec, fpr, grp or uid record cannot be found in what is left of
\* the text, parsing fails, the failure carries the text left unconsumed where
\* the search failed, and nothing of a record comes with it; every failure
\* carries an end of the text.
C17_FailureCarriesRemainder ==
    /\ RequiredRecordMissing
        => /\ parsed.kind = "Err"
           /\ DOMAIN parsed = {"kind", "input", "code"}
           /\ parsed.input = Unconsumed(input.dropped, input.key, text)
    /\ (parsed # Pending /\ parsed.kind = "Err")
        => parsed.input = Drop(text, Len(text) - Len(parsed.input))

\* A listing without its uid record has failed with more than nothing and
\* less than everything left unconsumed.
C17_Witness ==
    /\ RequiredRecordMissing /\ input.dropped = {UidRecord}
    /\ parsed.kind = "Err"
    /\ parsed.input # <<>> /\ parsed.input # text
    /\ StartsWith(parsed.input, <<":","\n","s","s","b",":">>)

---------------------------------------------------------------------------
(* C18, C20: the sinks and the passphrase cache of a run                   *)

\* The mutating calls of the run to the functions in ops, in the order made.
Made(ops) == SelectSeq(run.calls, LAMBDA call : call.op \in ops)

\* The sink configure_git_signing selects for the run's options and working
\* directory: the functions that may be called to write it.
SelectedSink ==
    IF cfg.skip_git THEN {}
    ELSE IF cfg.git_global_config THEN {"configure_signing_global"}
    ELSE IF env.is_repo THEN {"configure_signing"}
    ELSE {}

Succeeded == run.pc = "done" /\ run.status = "ok"

\* C18: a real run writes the signing configuration to at most one sink; every
\* write goes to the sink selected (the global store when asked for, else the
\* repository's store inside a repository, else none, and none under
\* skip_git); a run that succeeds has written the selected sink once.
C18_OneSinkOrNone ==
    ~cfg.dry_run =>
        /\ Len(Made(SigningOps)) <= 1
        /\ \A k \in 1..Len(Made(SigningOps)) :
              /\ Made(SigningOps)[k].op \in SelectedSink
              /\ Made(SigningOps)[k].target
                    = (IF cfg.git_global_config THEN <<"g","l","o","b","a","l">> ELSE <<"l","o","c","a","l">>)
        /\ Succeeded =>
              /\ Len(Made(SigningOps)) = Cardinality(SelectedSink)
              /\ \A k \in 1..Len(Made(SigningOps)) : Made(SigningOps)[k].ok

\* A real run inside a repository that asked for the global store and has
\* written it, and not the repository's.
C18_Witness ==
    /\ ~cfg.dry_run /\ Succeeded
    /\ cfg.git_global_config /\ env.is_repo /\ ~cfg.skip_git
    /\ Len(Made(SigningOps)) = 1
    /\ Made(SigningOps)[1].op = "configure_signing_global"
    /\ Made({"configure_signing"}) = <<>>

\* The passphrase step has returned Ok: the run has gone past it.
PassphraseStepDone ==
    /\ run.pc \in {"configure_gpg_trust_level", "configure_git_signing", "done"}
    /\ run.failed_at \notin {"detect_version", "import_gpg_key", "configure_gpg_passphrase"}

Preset(keygrip) ==
    Effect("preset_passphrase", keygrip, 0,
           <<<<"PRESET_PASSPHRASE", trim(Unwrap(cfg.passphrase))>>>>, TRUE)

HasBlock(block) == \E k \in 1..Len(run.out) : run.out[k].block = block

\* C20: in a real run with a passphrase, once the passphrase step has
\* succeeded the passphrase has been preset for the primary key's keygrip and
\* then for the subkey's keygrip, and for nothing else; before that the first
\* preset, if any, is the primary key's; in a run without a passphrase
\* preset_passphrase is never called and no passphrase block is printed.
C20_PassphraseOnlyIfSupplied ==
    /\ (~cfg.dry_run /\ IsSome(cfg.passphrase) /\ PassphraseStepDone)
        => Made({"preset_passphrase"})
              = <<Preset(Unwrap(run.private_key).secret_key.keygrip),
                  Preset(Unwrap(run.private_key).secret_subkey.keygrip)>>
    /\ (~cfg.dry_run /\ Made({"preset_passphrase"}) # <<>>)
        => /\ IsSome(cfg.passphrase)
           /\ Made({"preset_passphrase"})[1].target
                 = Unwrap(run.private_key).secret_key.keygrip
    /\ ~IsSome(cfg.passphrase)
        => Made({"preset_passphrase"}) = <<>> /\ ~HasBlock("Setting Passphrase")

\* A real run with a passphrase has preset it twice, for two keygrips.
C20_Witness ==
    /\ ~cfg.dry_run /\ IsSome(cfg.passphrase) /\ PassphraseStepDone
    /\ Len(Made({"preset_passphrase"})) = 2
    /\ Made({"preset_passphrase"})[1].target # Made({"preset_passphrase"})[2].target
    /\ Made({"preset_passphrase"})[2].ok
    /\ HasBlock("Setting Passphrase")

---------------------------------------------------------------------------
(* C19: what applying a signing configuration writes                       *)

\* The pairs a signing configuration is to set: five always, and
\* push.gpgsign = if-asked when push_sign is set.
SigningWrites(git_cfg) ==
    <<<<"user.name", git_cfg.user_name>>,
      <<"user.email", git_cfg.user_email>>,
      <<"user.signingKey", git_cfg.key_id>>,
      <<"commit.gpgsign", bool_text(git_cfg.commit_sign)>>,
      <<"tag.gpgsign", bool_text(git_cfg.tag_sign)>>>>
    \o (IF git_cfg.push_sign THEN <<<<"push.gpgsign", <<"i","f","-","a","s","k","e","d">>>>>> ELSE <<>>)

WritesKey(writes, key) == \E k \in 1..Len(writes) : writes[k][1] = key

\* C19: configure_signing and configure_signing_global write user.name,
\* user.email, user.signingKey, commit.gpgsign and tag.gpgsign whatever the
\* flags are, and push.gpgsign = if-asked exactly when push_sign is set; the
\* Display output has its push.gpgsign line exactly when the write is made.
C19_PushSignWrittenWhenAsked ==
    /\ (returned # Pending /\ input.kind \in SigningOps /\ returned.st = "Ok")
        => /\ Len(returned.calls) = 1
           /\ returned.calls[1].writes = SigningWrites(input.git_cfg)
    /\ Called("display")
        => (Len(returned.val) = 6
              <=> WritesKey(apply_signing_config(input.git_cfg), "push.gpgsign"))

---------------------------------------------------------------------------
(* C21: trust assignment                                                   *)

\* C21: assign_trust_level is called only in a run that has a trust level
\* configured, with the primary key's key_id and never the subkey's, and the
\* level it sends to the key tool lies between 1 and 5.
C21_TrustOptionalAndBounded ==
    \A k \in 1..Len(Made({"assign_trust_level"})) :
        /\ IsSome(cfg.trust_level)
        /\ Made({"assign_trust_level"})[k].target = Material.secret_key.key_id
        /\ Made({"assign_trust_level"})[k].target # Material.secret_subkey.key_id
        /\ Made({"assign_trust_level"})[k].level \in 1..5

---------------------------------------------------------------------------
(* C22: the report of a dry run                                            *)

\* The blocks the steps after import_gpg_key print.
LaterBlocks ==
    {"Setting Passphrase", "Setting Trust Level", "Git config set (global)",
     "Git config set (local)", "SigningConfig"}

BlocksOf(r) == SelectSeq(r.out, LAMBDA b : b.block \in LaterBlocks)

\* C22: when no mutating call of the real run fails, a dry run and the real
\* run of the same key and options end alike and print the same blocks, with
\* the same content, for passphrase caching, trust assignment and signing
\* configuration; the dry run makes no mutating call; a run that succeeds has
\* printed the block of every step that is enabled, dry or not.
C22_DryRunReportsLikeRealRun ==
    /\ (run.pc = "done" /\ env.failing \notin MutatingOps)
        => /\ BlocksOf(run) = BlocksOf(Counterpart)
           /\ Classification(run) = Classification(Counterpart)
           /\ run.signing_key = Counterpart.signing_key
           /\ cfg.dry_run => run.calls = <<>>
    /\ Succeeded
        => /\ HasBlock("Setting Passphrase") <=> IsSome(cfg.passphrase)
           /\ HasBlock("Setting Trust Level") <=> IsSome(cfg.trust_level)
           /\ HasBlock("SigningConfig") <=> SelectedSink # {}

\* A dry run has printed the four blocks of the three later steps, and the real
\* run of the same input makes mutating calls.
C22_Witness ==
    /\ cfg.dry_run /\ Succeeded
    /\ Len(BlocksOf(run)) = 4
    /\ BlocksOf(run)[2].block = "Setting Trust Level"
    /\ Counterpart.status = "ok" /\ Len(Counterpart.calls) >= 6

---------------------------------------------------------------------------
(* C23: records of other types in a listing                                *)

\* C23: a listing with a record of another type before the sec record, or
\* between or after the records of the key, parses to the key record the
\* listing without that record parses to.
C23_UnrelatedRecordsTolerated ==
    Damagedly("interleaved") => parsed = [kind |-> "Ok", key |-> input.key]

---------------------------------------------------------------------------
(* C24: the fingerprint override when the signing step has no work         *)

\* The run of the same input without the fingerprint override.
WithoutOverride == import([cfg EXCEPT !.fingerprint = None], env, NewRun)

\* C24: under skip_git, and outside a repository when the global store was not
\* asked for, no run fails with the fingerprint-not-found error, and a
\* finished run is the run the same input makes without the override: same
\* outcome, same calls, same report.
C24_OverrideUnusedWhenStepSkipped ==
    SelectedSink = {}
        => /\ ~FailedWith("FingerprintNotFound")
           /\ run.pc = "done" => run = WithoutOverride

\* A real run under skip_git with an override that is neither fingerprint of
\* the key has succeeded after its mutating calls.
C24_Witness ==
    /\ cfg.skip_git /\ ~cfg.dry_run
    /\ cfg.fingerprint = Some(UnrelatedFingerprint)
    /\ Succeeded /\ Len(run.calls) >= 4
    /\ UnrelatedFingerprint # Unwrap(run.private_key).secret_key.fingerprint
    /\ UnrelatedFingerprint # Unwrap(run.private_key).secret_subkey.fingerprint

=============================================================================
